---- MODULE Spec2Model ----
(***************************************************************************)
(* Adaptive softmax of the RNN language model (src/model.py) and the way   *)
(* src/main.py builds and drives it.                                       *)
(*                                                                         *)
(* Numbers.  A logit x is carried as the positive integer w = exp(x), and  *)
(* a log-probability y as the reduced fraction <<n, d>> = exp(y).  Hence   *)
(*   log-softmax(row)[j]  =  <<row[j], sum of row>>,                        *)
(*   a zero of torch.zeros =  <<1, 1>>,                                     *)
(*   add_ (sum of logs)    =  product of fractions,                         *)
(*   copy_                 =  overwrite,                                    *)
(* and a summed cross-entropy L is carried as exp(-L), the product of the  *)
(* probabilities of the labels.                                            *)
(***************************************************************************)
EXTENDS Integers, Sequences, FiniteSets, TLC

\* ---------------------------------------------------------------- bounds
MaxVocab == 3
MaxBatch == 2
MaxCut == 2

VARIABLES pc, cutoffArg, ntoken, seqlens, seeds, corpus, cutoff, lossCutoff, theta, id,
          op, given, targets, hidden, decoded, calls, new_target, loss,
          prob, writes

vars == <<pc, cutoffArg, ntoken, seqlens, seeds, corpus, cutoff, lossCutoff, theta, id,
          op, given, targets, hidden, decoded, calls, new_target, loss,
          prob, writes>>

\* ------------------------------------------------------------ arithmetic
RECURSIVE GCD(_, _)
GCD(a, b) == IF b = 0 THEN a ELSE GCD(b, a % b)

Rat(n, d) == LET g == GCD(n, d) IN <<n \div g, d \div g>>

One == <<1, 1>>

RatMul(a, b) == Rat(a[1] * b[1], a[2] * b[2])

RatAdd(a, b) == Rat(a[1] * b[2] + b[1] * a[2], a[2] * b[2])

\* sum of the entries row[0] .. row[n-1]
RECURSIVE SumTo(_, _)
SumTo(row, n) == IF n = 0 THEN 0 ELSE row[n - 1] + SumTo(row, n - 1)

RowSize(row) == Cardinality(DOMAIN row)

\* Python's None and a present value
None == [some |-> FALSE, v |-> <<>>]

Some(x) == [some |-> TRUE, v |-> x]

\* min / max of a non-empty tensor of integers
SeqMin(s) == CHOOSE x \in {s[k] : k \in 1..Len(s)} : \A k \in 1..Len(s) : x <= s[k]

SeqMax(s) == CHOOSE x \in {s[k] : k \in 1..Len(s)} : \A k \in 1..Len(s) : x >= s[k]

\* ------------------------------------------------------------ classifiers
NumClusters(cut) == Len(cut) - 1

OutputSize(cut) == cut[1] + Len(cut) - 1

\* exp of the logit the head gives column col for a hidden row h
HeadExp(th, h, col) == 1 + ((th + h + 2 * col) % 3)

\* exp of the logit tail i gives local column j for a hidden row h
TailExp(th, i, h, j) == 1 + ((th + i + 2 * h + j) % 3)

\* self.head(input): one row of c0 + K logits per input row
HeadLogits(th, cut, input) ==
    [n \in 1..Len(input) |->
        [pos |-> input[n].pos,
         w |-> [col \in 0..(OutputSize(cut) - 1) |-> HeadExp(th, input[n].h, col)]]]

\* self.tail[i](rows): one row of c_{i+1} - c_i logits per given row
TailLogits(th, cut, i, rows) ==
    [n \in 1..Len(rows) |->
        [pos |-> rows[n].pos,
         w |-> [j \in 0..(cut[i + 1] - cut[i] - 1) |-> TailExp(th, i, rows[n].h, j)]]]

\* nn.LogSoftmax over the columns of one row
LogSoftmax(row) ==
    LET s == SumTo(row, RowSize(row)) IN [j \in DOMAIN row |-> Rat(row[j], s)]

\* --------------------------------------------------------- target router
\* target.ge(cutoff[i]).mul(target.lt(cutoff[i + 1])); cluster i is cut[i], cut[i+1]
Mask(cut, i, target) ==
    [n \in 1..Len(target) |-> (target[n] >= cut[i]) /\ (target[n] < cut[i + 1])]

MaskSum(mask) == Cardinality({n \in 1..Len(mask) : mask[n]})

\* mask.float().nonzero().squeeze(1): the 0-based positions set in the mask, ascending
Nonzero(mask) == SelectSeq([n \in 1..Len(mask) |-> n - 1], LAMBDA p : mask[p + 1])

\* target[mask]: the selected entries, in position order
Masked(target, mask) ==
    LET ps == Nonzero(mask) IN [k \in 1..Len(ps) |-> target[ps[k] + 1]]

IndexSelectReversed(input, idx) ==
    [k \in 1..Len(idx) |-> input[idx[Len(idx) + 1 - k] + 1]]

\* input.index_select(0, idx)
IndexSelect(input, idx) == [k \in 1..Len(idx) |-> input[idx[k] + 1]]

SetTargetDropsFirst(cut, target) ==
    [i \in 1..NumClusters(cut) |->
        LET mask == Mask(cut, i, target)
        IN  IF MaskSum(mask) > 1 THEN Some(Tail(Nonzero(mask))) ELSE None]

\* AdaptiveSoftmax.set_target: the new value of self.id
SetTarget(cut, target) ==
    [i \in 1..NumClusters(cut) |->
        LET mask == Mask(cut, i, target)
        IN  IF MaskSum(mask) > 0 THEN Some(Nonzero(mask)) ELSE None]

RoutingKeepsStale(oldId, cut, target) ==
    IF Len(oldId) = NumClusters(cut) THEN oldId ELSE SetTarget(cut, target)

\* RNNModel.forward: self.decoder.set_target(target.data) before the decoder call
Routing(oldId, cut, target) == SetTarget(cut, target)

ForwardDense(th, cut, ids, input) ==
    <<Some(HeadLogits(th, cut, input))>> \o
    [i \in 1..Len(ids) |-> Some(TailLogits(th, cut, i, input))]

\* AdaptiveSoftmax.forward: the head on every row, tail i on the rows of self.id[i]
Forward(th, cut, ids, input) ==
    <<Some(HeadLogits(th, cut, input))>> \o
    [i \in 1..Len(ids) |->
        IF ids[i].some
        THEN Some(TailLogits(th, cut, i, IndexSelect(input, ids[i].v)))
        ELSE None]

\* the tail classifiers a forward pass invokes, in call order
ForwardCalls(out) == SelectSeq([i \in 1..(Len(out) - 1) |-> i], LAMBDA i : out[i + 1].some)

\* ------------------------------------------------------------ AdaptiveLoss
RemapStepAlias(st, lcut, i) ==
    LET mask == Mask(lcut, i, st.head)
        head == [n \in 1..Len(st.head) |->
                    IF mask[n] THEN lcut[1] + (i - 1) ELSE st.head[n]]
    IN  [target |-> head,
         head   |-> head,
         tails  |-> Append(st.tails,
                      IF MaskSum(mask) > 0
                      THEN Some([k \in 1..MaskSum(mask) |->
                                    Masked(st.head, mask)[k] - lcut[i]])
                      ELSE None)]

\* one turn of the loop of remap_target, for cluster i (the code's i + 1)
RemapStep(st, lcut, i) ==
    LET mask == Mask(lcut, i, st.target)
    IN  [target |-> st.target,
         head   |-> [n \in 1..Len(st.head) |->
                        IF mask[n] THEN lcut[1] + (i - 1) ELSE st.head[n]],
         tails  |-> Append(st.tails,
                      IF MaskSum(mask) > 0
                      THEN Some([k \in 1..MaskSum(mask) |->
                                    Masked(st.target, mask)[k] - lcut[i]])
                      ELSE None)]

RECURSIVE RemapLoop(_, _, _)
RemapLoop(st, lcut, i) ==
    IF i > NumClusters(lcut) THEN st ELSE RemapLoop(RemapStep(st, lcut, i), lcut, i + 1)

\* AdaptiveLoss.remap_target: the caller's tensor after the call, and new_target
RemapTarget(lcut, target) ==
    LET st == RemapLoop([target |-> target, head |-> target, tails |-> <<>>], lcut, 1)
    IN  [target |-> st.target, new_target |-> <<Some(st.head)>> \o st.tails]

\* nn.CrossEntropyLoss rejects a batch whose sizes differ or whose label is no class
CriterionRaises(rows, labels) ==
    \/ Len(rows) # Len(labels)
    \/ \E k \in 1..Len(labels) : labels[k] < 0 \/ labels[k] >= RowSize(rows[k].w)

\* nn.CrossEntropyLoss(size_average=False): exp(-sum_k CE(rows[k], labels[k]))
RECURSIVE Criterion(_, _, _)
Criterion(rows, labels, k) ==
    IF k = 0 THEN One
    ELSE RatMul(Criterion(rows, labels, k - 1),
                Rat(rows[k].w[labels[k]], SumTo(rows[k].w, RowSize(rows[k].w))))

\* the cross-entropy terms of one criterion call: <<slot, batch position, label>>
Terms(slot, rows, labels) == [k \in 1..Len(rows) |-> <<slot, rows[k].pos, labels[k]>>]

BatchSizeColumns(input) == RowSize(input[1].v[1].w)

\* batch_size = input[0].size(0)
BatchSize(input) == Len(input[1].v)

\* the loop of AdaptiveLoss.forward from slot i on (slot 1 is the head, slot
\* c + 1 is cluster c); resume: the debugger of the except branch is told to continue
RECURSIVE LossLoop(_, _, _, _, _)
LossLoop(input, tgt, i, acc, resume) ==
    IF i > Len(input)
    THEN [acc EXCEPT !.status = "returned", !.div = BatchSize(input)]
    ELSE IF ~input[i].some
    THEN LossLoop(input, tgt, i + 1, acc, resume)
    ELSE IF ~tgt[i].some
    THEN [acc EXCEPT !.status = "attribute_error"]
    ELSE IF ~(SeqMin(tgt[i].v) >= 0 /\ SeqMax(tgt[i].v) <= RowSize(input[i].v[1].w))
    THEN [acc EXCEPT !.status = "assertion_error"]
    ELSE IF CriterionRaises(input[i].v, tgt[i].v)
    THEN IF resume
         THEN LossLoop(input, tgt, i + 1, acc, resume)
         ELSE [acc EXCEPT !.status = "debugger_quit"]
    ELSE LossLoop(input, tgt, i + 1,
                  [acc EXCEPT
                     !.expneg = RatMul(@, Criterion(input[i].v, tgt[i].v, Len(tgt[i].v))),
                     !.terms = @ \o Terms(i - 1, input[i].v, tgt[i].v)],
                  resume)

NoLoss == [status |-> "none", expneg |-> One, terms |-> <<>>, div |-> 0]

\* AdaptiveLoss.forward on the remapped targets
LossForward(input, tgt, resume) ==
    LossLoop(input, tgt, 1, [NoLoss EXCEPT !.status = "running"], resume)

\* ------------------------------------------------- AdaptiveSoftmax.log_prob
\* lsm(self.head(input)), row by row
LsmHead(th, cut, input) ==
    LET out == HeadLogits(th, cut, input)
    IN  [n \in 1..Len(input) |-> LogSoftmax(out[n].w)]

\* lsm(self.tail[i](input)), row by row
LsmTail(th, cut, i, input) ==
    LET out == TailLogits(th, cut, i, input)
    IN  [n \in 1..Len(input) |-> LogSoftmax(out[n].w)]

\* torch.zeros(batch_size, self.cutoff[-1])
Zeros(n, cut) == [r \in 1..n |-> [v \in 0..(cut[Len(cut)] - 1) |-> One]]

\* the columns a write step touches: step 0 is the head's narrow(1, 0, output_size),
\* step i is cluster i's narrow(1, pos, i_size)
StepCols(cut, s) ==
    IF s = 0 THEN 0..(OutputSize(cut) - 1) ELSE cut[s]..(cut[s + 1] - 1)

\* prob.narrow(1, 0, self.output_size).add_(lsm_head.narrow(1, 0, self.output_size).data)
HeadStep(pr, th, cut, input) ==
    LET lsm_head == LsmHead(th, cut, input)
    IN  [n \in 1..Len(pr) |->
            [v \in DOMAIN pr[n] |->
                IF v \in StepCols(cut, 0) THEN RatMul(pr[n][v], lsm_head[n][v])
                ELSE pr[n][v]]]

ClusterStepNoCopy(pr, th, cut, input, i) ==
    LET lsm_head == LsmHead(th, cut, input)
        lsm_tail == LsmTail(th, cut, i, input)
    IN  [n \in 1..Len(pr) |->
            [v \in DOMAIN pr[n] |->
                IF v \in StepCols(cut, i)
                THEN RatMul(pr[n][v], lsm_tail[n][v - cut[i]])
                ELSE pr[n][v]]]

\* prob.narrow(1, pos, i_size).copy_(buffer.data).add_(lsm_tail.data) for cluster i
ClusterStep(pr, th, cut, input, i) ==
    LET lsm_head == LsmHead(th, cut, input)
        lsm_tail == LsmTail(th, cut, i, input)
    IN  [n \in 1..Len(pr) |->
            [v \in DOMAIN pr[n] |->
                IF v \in StepCols(cut, i)
                THEN RatMul(lsm_head[n][cut[1] + i - 1], lsm_tail[n][v - cut[i]])
                ELSE pr[n][v]]]

\* the write steps order[1..k] applied to the zero buffer
RECURSIVE RunSteps(_, _, _, _, _)
RunSteps(order, k, th, cut, input) ==
    IF k = 0 THEN Zeros(Len(input), cut)
    ELSE LET pr == RunSteps(order, k - 1, th, cut, input)
         IN  IF order[k] = 0 THEN HeadStep(pr, th, cut, input)
             ELSE ClusterStep(pr, th, cut, input, order[k])

CodeOrderHeadLast(cut) == [i \in 1..NumClusters(cut) |-> i] \o <<0>>

\* the order of the code: the head's write, then the loop over range(len(self.tail))
CodeOrder(cut) == <<0>> \o [i \in 1..NumClusters(cut) |-> i]

\* AdaptiveSoftmax.log_prob
LogProb(th, cut, input) ==
    RunSteps(CodeOrder(cut), Len(CodeOrder(cut)), th, cut, input)

\* the writes of log_prob to the buffer, in order
LogProbWrites(cut) ==
    LET order == CodeOrder(cut)
    IN  [k \in 1..Len(order) |-> [step |-> order[k], cols |-> StepCols(cut, order[k])]]

\* the tail classifiers log_prob invokes: every one, whatever self.id holds
LogProbCalls(ids, cut) == [i \in 1..NumClusters(cut) |-> i]

\* ------------------------------------------------------------------ inputs
\* strictly increasing cutoff lists inside the vocabulary: 0 < c0 < ... < V
ValidCutoffs(cut) ==
    /\ Len(cut) >= 2
    /\ cut[1] > 0
    /\ \A i \in 1..(Len(cut) - 1) : cut[i] < cut[i + 1]

SeqsUpTo(S, n) == UNION {[1..k -> S] : k \in 1..n}

\* the hidden rows the recurrent encoder hands over, each tagged with its position
HiddenRows(n, seed) == [k \in 1..n |-> [pos |-> k - 1, h |-> (seed + k) % 2]]

\* the parameter settings told apart
Thetas == {0, 1}

Idle ==
    /\ op = "none" /\ given = <<>> /\ targets = <<>> /\ hidden = <<>>
    /\ decoded = <<>> /\ calls = <<>> /\ new_target = <<>> /\ loss = NoLoss
    /\ prob = <<>> /\ writes = <<>>

Init ==
    /\ pc = "start"
    /\ ntoken \in 2..MaxVocab
    /\ cutoffArg \in {c \in SeqsUpTo(1..(MaxVocab - 1), MaxCut) :
                        ValidCutoffs(c \o <<ntoken>>)}
    /\ seqlens = 1..MaxBatch
    /\ seeds = {0, 1}
    /\ corpus = 0..ntoken
    /\ cutoff = <<>> /\ lossCutoff = <<>>
    /\ theta \in Thetas
    /\ id = <<>>
    /\ Idle

\* the end-to-end scenario: --cutoff 4,7 over a vocabulary of 10 ids
InitScenario ==
    /\ pc = "start"
    /\ ntoken = 10
    /\ cutoffArg = <<4, 7>>
    /\ seqlens = {4}
    /\ seeds = {0}
    /\ corpus = {0, 2, 5, 8}
    /\ cutoff = <<>> /\ lossCutoff = <<>>
    /\ theta \in Thetas
    /\ id = <<>>
    /\ Idle

\* any --cutoff list, valid or not
InitCtor ==
    /\ pc = "start"
    /\ ntoken \in 1..MaxVocab
    /\ cutoffArg \in SeqsUpTo((-1)..(MaxVocab + 1), MaxCut)
    /\ seqlens = 1..MaxBatch
    /\ seeds = {0, 1}
    /\ corpus = 0..ntoken
    /\ cutoff = <<>> /\ lossCutoff = <<>>
    /\ theta \in Thetas
    /\ id = <<>>
    /\ Idle

\* ----------------------------------------------------------------- actions
\* nn.Linear(_, size): a negative size is refused; whether an empty layer is
\* refused depends on the torch build
LinearRaises(size, zeroRaises) == size < 0 \/ (size = 0 /\ zeroRaises)

\* the layer widths AdaptiveSoftmax.__init__ asks for: the head, then each tail
LayerSizes(cut) ==
    <<OutputSize(cut)>> \o [i \in 1..NumClusters(cut) |-> cut[i + 1] - cut[i]]

\* main.py: RNNModel(..., cutoff, adasoft) and AdaptiveLoss([*cutoff, ntokens + 1])
Construct ==
    /\ pc = "start"
    /\ \E zeroRaises \in BOOLEAN :
        LET cut == cutoffArg \o <<ntoken>>
            sizes == LayerSizes(cut)
        IN  IF \E k \in 1..Len(sizes) : LinearRaises(sizes[k], zeroRaises)
            THEN /\ pc' = "ctor_error"
                 /\ UNCHANGED <<cutoff, lossCutoff>>
            ELSE /\ pc' = "ready"
                 /\ cutoff' = cut
                 /\ lossCutoff' = cutoffArg \o <<ntoken + 1>>
    /\ UNCHANGED <<cutoffArg, ntoken, seqlens, seeds, corpus, theta, id, op, given, targets,
                   hidden, decoded, calls, new_target, loss, prob, writes>>

\* the batch lengths get_batch yields: args.bptt, and less for the last chunk
\* (seqlens); one batch of train(): model(data, hidden, targets), criterion(output, targets),
\* then backward and the parameter update
TrainStep ==
    /\ pc = "ready"
    /\ \E n \in seqlens, seed \in seeds :
       \E tgt \in [1..n -> corpus] :
        LET input == HiddenRows(n, seed)
            ids == Routing(id, cutoff, tgt)
            out == Forward(theta, cutoff, ids, input)
            rm == RemapTarget(lossCutoff, tgt)
        IN \E res \in {LossForward(out, rm.new_target, resume) : resume \in BOOLEAN} :
            /\ id' = ids
            /\ op' = "train"
            /\ given' = tgt
            /\ targets' = rm.target
            /\ hidden' = input
            /\ decoded' = out
            /\ calls' = ForwardCalls(out)
            /\ new_target' = rm.new_target
            /\ loss' = res
            /\ prob' = <<>>
            /\ writes' = <<>>
            /\ IF res.status = "returned"
               THEN pc' = "trained" /\ theta' = (theta + 1) % 2
               ELSE pc' = "aborted" /\ theta' = theta
    /\ UNCHANGED <<cutoffArg, ntoken, seqlens, seeds, corpus, cutoff, lossCutoff>>

\* one batch of evaluate(): model.log_prob(data, hidden)
LogProbCall ==
    /\ pc = "ready"
    /\ \E n \in seqlens, seed \in seeds :
        LET input == HiddenRows(n, seed)
        IN  /\ pc' = "evaluated"
            /\ op' = "eval"
            /\ hidden' = input
            /\ prob' = LogProb(theta, cutoff, input)
            /\ writes' = LogProbWrites(cutoff)
            /\ calls' = LogProbCalls(id, cutoff)
            /\ given' = <<>> /\ targets' = <<>> /\ decoded' = <<>>
            /\ new_target' = <<>> /\ loss' = NoLoss
    /\ UNCHANGED <<cutoffArg, ntoken, seqlens, seeds, corpus, cutoff, lossCutoff, theta, id>>

\* back at the head of the batch loop: the locals of the last batch are gone,
\* the parameters and the decoder's self.id stay
NextBatch ==
    /\ pc \in {"trained", "evaluated"}
    /\ pc' = "ready"
    /\ op' = "none" /\ given' = <<>> /\ targets' = <<>> /\ hidden' = <<>>
    /\ decoded' = <<>> /\ calls' = <<>> /\ new_target' = <<>> /\ loss' = NoLoss
    /\ prob' = <<>> /\ writes' = <<>>
    /\ UNCHANGED <<cutoffArg, ntoken, seqlens, seeds, corpus, cutoff, lossCutoff, theta, id>>

Next == Construct \/ TrainStep \/ LogProbCall \/ NextBatch

Spec == Init /\ [][Next]_vars

SpecScenario == InitScenario /\ [][Next]_vars

NextCtor == Construct

SpecCtor == InitCtor /\ [][NextCtor]_vars

TypeOK == pc \in {"start", "ready", "trained", "evaluated", "ctor_error", "aborted"}

\* ------------------------------------------------------- shared vocabulary
\* the vocabulary size V of the constructed decoder
Vocab == cutoff[Len(cutoff)]

\* the batch of a training step holds vocabulary ids only
InRange == \A n \in 1..Len(given) : given[n] \in 0..(Vocab - 1)

\* 0-based batch positions whose target lies in cluster i of the cutoffs cut
PositionsIn(cut, i, tgt) == {p \in 0..(Len(tgt) - 1) : cut[i] <= tgt[p + 1] /\ tgt[p + 1] < cut[i + 1]}

\* a set of integers as an ascending sequence
Ascending(P) ==
    [k \in 1..Cardinality(P) |-> CHOOSE p \in P : Cardinality({q \in P : q < p}) = k - 1]

\* the routing of a batch: per cluster, its positions in ascending order, if any
FreshRouting(cut, tgt) ==
    [i \in 1..(Len(cut) - 1) |->
        IF PositionsIn(cut, i, tgt) = {} THEN None
        ELSE Some(Ascending(PositionsIn(cut, i, tgt)))]

\* the clusters of cut that hold the id t
ClustersOf(cut, t) == {i \in 1..(Len(cut) - 1) : cut[i] <= t /\ t < cut[i + 1]}

\* the probability a row of logits gives column j, normalised over its first m columns
SoftmaxOver(w, j, m) == Rat(w[j], SumTo(w, m))

RECURSIVE RatProduct(_, _)
RatProduct(f, n) == IF n = 0 THEN One ELSE RatMul(RatProduct(f, n - 1), f[n])

RECURSIVE RatSum(_, _)
RatSum(row, n) == IF n = 0 THEN <<0, 1>> ELSE RatAdd(RatSum(row, n - 1), row[n - 1])

\* ---------------------------------------------------------------- claims
\* the probability the head gives column col for the hidden row of batch row n
HeadProb(n, col) ==
    LET w == [c \in 0..(cutoff[1] + Len(cutoff) - 2) |-> HeadExp(theta, hidden[n].h, c)]
    IN  SoftmaxOver(w, col, cutoff[1] + Len(cutoff) - 1)

\* the probability tail i gives local id j for the hidden row of batch row n
TailProb(n, i, j) ==
    LET w == [c \in 0..(cutoff[i + 1] - cutoff[i] - 1) |-> TailExp(theta, i, hidden[n].h, c)]
    IN  SoftmaxOver(w, j, cutoff[i + 1] - cutoff[i])

\* C1: after log_prob, the result is an N x V matrix whose entry (n, v) is the
\* head log-softmax at v when v < c0, and head log-softmax at c0 + i plus tail i
\* log-softmax at v - c_i for the one cluster i holding v; no entry is the initial
\* zero, and every row sums to probability one.
Thm_C1_LogProbEntries ==
    pc = "evaluated" =>
        /\ Len(prob) = Len(hidden)
        /\ \A n \in 1..Len(prob) :
            /\ DOMAIN prob[n] = 0..(Vocab - 1)
            /\ \A v \in 0..(Vocab - 1) :
                /\ prob[n][v] # One
                /\ IF v < cutoff[1] THEN prob[n][v] = HeadProb(n, v)
                   ELSE /\ Cardinality(ClustersOf(cutoff, v)) = 1
                        /\ \A i \in ClustersOf(cutoff, v) :
                              prob[n][v] = RatMul(HeadProb(n, cutoff[1] + i - 1),
                                                  TailProb(n, i, v - cutoff[i]))
            /\ RatSum(prob[n], Vocab) = One

Wit_C1_TwoClustersEvaluated ==
    /\ pc = "evaluated"
    /\ Len(cutoff) = 3
    /\ Len(prob) >= 2

\* C2: for in-vocabulary targets, remap_target leaves head-band ids unchanged,
\* rewrites an id of cluster i (exactly one such cluster) to c0 + i, hands tail i
\* the local ids t - c_i in position order, each inside the tail's width, and
\* leaves the caller's batch as it was.
Thm_C2_RemapTarget ==
    (op = "train" /\ InRange) =>
        /\ targets = given
        /\ Len(new_target) = Len(lossCutoff)
        /\ new_target[1].some
        /\ Len(new_target[1].v) = Len(given)
        /\ \A n \in 1..Len(given) :
              IF given[n] < lossCutoff[1] THEN new_target[1].v[n] = given[n]
              ELSE /\ Cardinality(ClustersOf(lossCutoff, given[n])) = 1
                   /\ \A i \in ClustersOf(lossCutoff, given[n]) :
                         new_target[1].v[n] = lossCutoff[1] + i - 1
        /\ \A i \in 1..(Len(lossCutoff) - 1) :
              LET ps == Ascending(PositionsIn(lossCutoff, i, given))
              IN  IF Len(ps) = 0 THEN ~new_target[i + 1].some
                  ELSE /\ new_target[i + 1].some
                       /\ Len(new_target[i + 1].v) = Len(ps)
                       /\ \A k \in 1..Len(ps) :
                             /\ new_target[i + 1].v[k] = given[ps[k] + 1] - lossCutoff[i]
                             /\ new_target[i + 1].v[k] >= 0
                             /\ new_target[i + 1].v[k] < cutoff[i + 1] - cutoff[i]

Wit_C2_TwoClustersRemapped ==
    /\ op = "train"
    /\ InRange
    /\ Len(given) = 2
    /\ given[1] >= lossCutoff[2]
    /\ given[2] >= lossCutoff[1] /\ given[2] < lossCutoff[2]

\* the head label of a target: itself in the head band, c0 + i for cluster i
HeadLabel(t) ==
    IF t < cutoff[1] THEN t
    ELSE cutoff[1] + (CHOOSE i \in ClustersOf(cutoff, t) : TRUE) - 1

\* exp(-cross-entropy) of the head logits over all their columns, summed over the batch
ExpectedHead ==
    RatProduct([n \in 1..Len(given) |->
                   SoftmaxOver(decoded[1].v[n].w, HeadLabel(given[n]),
                               cutoff[1] + Len(cutoff) - 1)], Len(given))

\* exp(-cross-entropy) of tail i's logits against the local ids of its positions
ExpectedCluster(i) ==
    LET ps == Ascending(PositionsIn(cutoff, i, given))
    IN  RatProduct([k \in 1..Len(ps) |->
                       SoftmaxOver(decoded[i + 1].v[k].w, given[ps[k] + 1] - cutoff[i],
                                   cutoff[i + 1] - cutoff[i])], Len(ps))

ExpectedTotal ==
    RatMul(ExpectedHead,
           RatProduct([i \in 1..(Len(cutoff) - 1) |->
                          IF PositionsIn(cutoff, i, given) = {} THEN One
                          ELSE ExpectedCluster(i)], Len(cutoff) - 1))

\* C3: in a training step on in-vocabulary targets, a cluster that receives no
\* target has its tail classifier not invoked and its output slot None, adds no
\* term to the loss, raises nothing, and the loss is the head term plus the terms
\* of the non-empty clusters, divided by the batch size.
Thm_C3_EmptyClusterSkipped ==
    (op = "train" /\ InRange) =>
        \A i \in 1..(Len(cutoff) - 1) :
            PositionsIn(cutoff, i, given) = {} =>
                /\ \A k \in 1..Len(calls) : calls[k] # i
                /\ ~decoded[i + 1].some
                /\ \A k \in 1..Len(loss.terms) : loss.terms[k][1] # i
                /\ pc = "trained"
                /\ loss.status = "returned"
                /\ loss.div = Len(given)
                /\ loss.expneg = ExpectedTotal

Wit_C3_OneEmptyOneFull ==
    /\ op = "train"
    /\ InRange
    /\ Len(cutoff) = 3
    /\ PositionsIn(cutoff, 1, given) = {}
    /\ PositionsIn(cutoff, 2, given) # {}
    /\ loss.status = "returned"

\* C4 as stated: for a batch of head-band targets the loss is the batch-mean
\* cross-entropy over only the first c0 columns of the head logits.
Orig_C4_FirstC0ColumnsOnly ==
    (op = "train" /\ \A n \in 1..Len(given) : given[n] < cutoff[1]) =>
        /\ loss.status = "returned"
        /\ loss.div = Len(given)
        /\ loss.expneg =
              RatProduct([n \in 1..Len(given) |->
                             SoftmaxOver(decoded[1].v[n].w, given[n], cutoff[1])],
                         Len(given))

\* C4 amended: for a batch of head-band targets the loss is the batch-mean
\* cross-entropy of the raw targets over all c0 + K columns of the head logits,
\* the K cluster logits included in the normalisation.
Thm_C4_AllHeadColumns ==
    (op = "train" /\ \A n \in 1..Len(given) : given[n] < cutoff[1]) =>
        /\ loss.status = "returned"
        /\ loss.div = Len(given)
        /\ \A n \in 1..Len(given) :
              RowSize(decoded[1].v[n].w) = cutoff[1] + Len(cutoff) - 1
        /\ loss.expneg =
              RatProduct([n \in 1..Len(given) |->
                             SoftmaxOver(decoded[1].v[n].w, given[n],
                                         cutoff[1] + Len(cutoff) - 1)],
                         Len(given))

Wit_C4_HeadOnlyBatch ==
    /\ op = "train"
    /\ Len(given) = 2
    /\ \A n \in 1..Len(given) : given[n] < cutoff[1]
    /\ given[1] # given[2]
    /\ loss.status = "returned"

\* C5 as stated: with cutoffs [4, 7, 10] and targets [0, 5, 8, 2], targets 5 and 8
\* share cluster 0 with local ids 1 and 4, and the head targets are [0, 4, 4, 2].
Orig_C5_OneSharedCluster ==
    (op = "train" /\ cutoff = <<4, 7, 10>> /\ given = <<0, 5, 8, 2>>) =>
        /\ id[1] = Some(<<1, 2>>)
        /\ new_target[2] = Some(<<1, 4>>)
        /\ new_target[1] = Some(<<0, 4, 4, 2>>)

\* C5 amended: with cutoffs [4, 7, 10] and targets [0, 5, 8, 2], target 5
\* (position 1) goes to cluster 0 with local id 1 and target 8 (position 2) to
\* cluster 1 with local id 1; positions 0 and 3 stay in the head band unchanged,
\* and the head targets are [0, 4, 5, 2].
Thm_C5_TwoClusters ==
    (op = "train" /\ cutoff = <<4, 7, 10>> /\ given = <<0, 5, 8, 2>>) =>
        /\ id = <<Some(<<1>>), Some(<<2>>)>>
        /\ new_target = <<Some(<<0, 4, 5, 2>>), Some(<<1>>), Some(<<1>>)>>
        /\ targets = given

Wit_C5_ScenarioBatch ==
    /\ op = "train"
    /\ cutoff = <<4, 7, 10>>
    /\ given = <<0, 5, 8, 2>>
    /\ loss.status = "returned"

\* a target the loss routes to a cluster with a local id outside the width of
\* that cluster's tail output
BadLocalId ==
    \E n \in 1..Len(given) : \E i \in ClustersOf(lossCutoff, given[n]) :
        given[n] - lossCutoff[i] \notin 0..(cutoff[i + 1] - cutoff[i] - 1)

\* C6: a batch holding a target routed to a cluster with a local id outside the
\* tail's output range (such as the id V) aborts the training step: the loss
\* never returns a value for it.
Orig_C6_BadLocalIdAborts ==
    (op = "train" /\ BadLocalId) => (pc = "aborted" /\ loss.status # "returned")

\* C7: no model is ever constructed from an invalid cutoff list (equal or
\* decreasing neighbours, a first cutoff <= 0, a cutoff >= the vocabulary size).
Orig_C7_InvalidCutoffsRejected ==
    pc = "ready" => (ValidCutoffs(cutoff) /\ ValidCutoffs(lossCutoff))

\* every order in which the write steps 0..K of log_prob could run
StepOrders ==
    {o \in [1..Len(cutoff) -> 0..(Len(cutoff) - 1)] :
        \A a, b \in 1..Len(cutoff) : a # b => o[a] # o[b]}

\* the write records of the buffer that touch column v
WritersOf(v) == {k \in 1..Len(writes) : v \in writes[k].cols}

TermsAt(p, tail) ==
    {k \in 1..Len(loss.terms) :
        /\ loss.terms[k][2] = p
        /\ (loss.terms[k][1] # 0) = tail}

\* C9: in a training step on in-vocabulary targets, the index sequence of each
\* cluster lists exactly its batch positions, ascending and once each; the
\* local ids have the same length and order, the k-th tail-logit row and the
\* k-th local id belonging to one position; every position gives one head term
\* and, iff its target is >= c0, one tail term, in its own cluster.
Thm_C9_OneHeadTermOneTailTerm ==
    (op = "train" /\ InRange) =>
        /\ id = FreshRouting(cutoff, given)
        /\ \A i \in 1..(Len(cutoff) - 1) :
              LET ps == Ascending(PositionsIn(cutoff, i, given))
              IN  Len(ps) > 0 =>
                    /\ decoded[i + 1].some /\ new_target[i + 1].some
                    /\ Len(decoded[i + 1].v) = Len(ps)
                    /\ Len(new_target[i + 1].v) = Len(ps)
                    /\ \A k \in 1..Len(ps) :
                          /\ decoded[i + 1].v[k].pos = ps[k]
                          /\ RowSize(decoded[i + 1].v[k].w) = cutoff[i + 1] - cutoff[i]
                          /\ new_target[i + 1].v[k] = given[ps[k] + 1] - cutoff[i]
        /\ loss.status = "returned"
        /\ \A p \in 0..(Len(given) - 1) :
              /\ Cardinality(TermsAt(p, FALSE)) = 1
              /\ \A k \in TermsAt(p, FALSE) : loss.terms[k][3] = HeadLabel(given[p + 1])
              /\ Cardinality(TermsAt(p, TRUE)) = IF given[p + 1] >= cutoff[1] THEN 1 ELSE 0
              /\ \A k \in TermsAt(p, TRUE) :
                    /\ loss.terms[k][1] \in ClustersOf(cutoff, given[p + 1])
                    /\ loss.terms[k][3] = given[p + 1] - cutoff[loss.terms[k][1]]
        /\ \A k \in 1..Len(loss.terms) : loss.terms[k][2] \in 0..(Len(given) - 1)

Wit_C9_TwoPositionsOneCluster ==
    /\ op = "train"
    /\ InRange
    /\ Len(given) = 2
    /\ given[1] # given[2]
    /\ \E i \in 1..(Len(cutoff) - 1) : Cardinality(PositionsIn(cutoff, i, given)) = 2
    /\ loss.status = "returned"

\* C10: a training step routes by its own targets, whatever self.id held before
\* it, and log_prob leaves self.id as it was and invokes every tail classifier
\* on every row, whatever self.id holds.
Thm_C10_RoutingFreshPerBatch ==
    [][/\ (pc = "ready" /\ op' = "train") =>
            /\ id' = FreshRouting(cutoff, given')
            /\ \A i \in 1..(Len(cutoff) - 1) :
                  /\ decoded'[i + 1].some = (PositionsIn(cutoff, i, given') # {})
                  /\ decoded'[i + 1].some =>
                        [k \in 1..Len(decoded'[i + 1].v) |-> decoded'[i + 1].v[k].pos]
                            = Ascending(PositionsIn(cutoff, i, given'))
       /\ (pc = "ready" /\ op' = "eval") =>
            /\ id' = id
            /\ theta' = theta
            /\ calls' = [i \in 1..(Len(cutoff) - 1) |-> i]
            /\ Len(prob') = Len(hidden')
            /\ \A n \in 1..Len(prob') : \A v \in DOMAIN prob'[n] : prob'[n][v] # One
      ]_vars

Wit_C10_EvalAfterSparseBatch ==
    /\ pc = "evaluated"
    /\ Len(id) = 2
    /\ ~id[1].some
    /\ id[2].some

====
